---------------------------- MODULE Spec2Model ----------------------------
(***************************************************************************)
(* Recognition worker loop of RealTimeTranslateDisplay and its fan-out:    *)
(* SpeechRecognition.recognition_thread (emission policy, pair ids,        *)
(* buffered log, MLX lock), the keyword-search side thread and the        *)
(* WebUIBridge send operations.                                            *)
(*                                                                         *)
(* Texts are sequences of one-character strings.  Time is counted in      *)
(* ticks of 0.5 s, so the 1.5 s of the emission policy is 3 ticks.         *)
(***************************************************************************)
EXTENDS Integers, Sequences, FiniteSets, TLC

(***************************************************************************)
(* Bounds of the model.                                                    *)
(***************************************************************************)
MaxChunks == 3       \* audio chunks captured in one run
MaxGap == 2          \* largest number of ticks between two readings of the clock
StartTime == 5       \* time.time() when the session starts, in ticks
MaxIOErrors == 1     \* log-file write errors in one run
MaxAppends == 11     \* appends to the log buffer in the runs of the log writer alone
GateChunks == 2      \* audio chunks captured in the runs of two loops sharing the lock
MaxQueueSize == 1    \* largest maxsize the translation queue is created with
MaxWords == 4        \* words in a text given to the keyword extraction

(***************************************************************************)
(* Program constants.                                                      *)
(***************************************************************************)
DedupTicks == 3          \* 1.5 s
log_buffer_size == 10    \* self._log_buffer_size

Workers == {"w1", "w2"}
NoText == << >>

(***************************************************************************)
(* Strings.                                                                *)
(***************************************************************************)
Whitespace == {" ", "\t", "\n"}

RECURSIVE lstrip(_)
lstrip(s) ==
    IF s # << >> /\ Head(s) \in Whitespace THEN lstrip(Tail(s)) ELSE s

RECURSIVE rstrip(_)
rstrip(s) ==
    IF s # << >> /\ s[Len(s)] \in Whitespace
    THEN rstrip(SubSeq(s, 1, Len(s) - 1))
    ELSE s

\* A mutant of strip: the text is used untrimmed.
strip_none(s) == s

\* str.strip()
strip(s) == rstrip(lstrip(s))

\* What the backend can return for a chunk: result['text'].
RawTexts ==
    { << >>,
      << " " >>,
      << " ", "H", "e", "y", "\n" >>,
      << "o", "k", " " >> }

Texts == { strip(r) : r \in RawTexts }

(***************************************************************************)
(* Emission policy, line 129.                                              *)
(***************************************************************************)
\* A mutant of the policy: an identical text is emitted again from 1.5 s on.
should_emit_at_threshold(text, last_text, last_text_time, current_time) ==
    /\ text # NoText
    /\ (text # last_text \/ current_time - last_text_time >= DedupTicks)

\* A mutant of the policy: every non-empty text is emitted.
should_emit_always(text, last_text, last_text_time, current_time) ==
    text # NoText

should_emit(text, last_text, last_text_time, current_time) ==
    /\ text # NoText
    /\ (text # last_text \/ current_time - last_text_time > DedupTicks)

(***************************************************************************)
(* Pair ids: uuid.uuid4() returns an id that was not returned before.      *)
(***************************************************************************)
PairIds == 1..MaxChunks

\* A mutant of uuid4: any id, also one already issued.
uuid4_any(used) == PairIds

\* Ids carry no meaning beyond their identity, so the model draws the least
\* of the ids not yet issued.
uuid4(used) ==
    {id \in PairIds \ used : \A other \in PairIds \ used : id <= other}

(***************************************************************************)
(* Buffered log writer.  A flush outcome says whether the write succeeded  *)
(* and, if it raised IOError, how many lines had reached the file.         *)
(***************************************************************************)
\* A mutant of the threshold test: flush only above the threshold.
buffer_full_above(buf) == Len(buf) > log_buffer_size

buffer_full(buf) == Len(buf) >= log_buffer_size

\* A mutant of the flush: the buffer is cleared whether or not the write succeeded.
flush_log_buffer_always_clear(buf, file, o) ==
    IF buf = << >>
    THEN [buf |-> buf, file |-> file, opened |-> FALSE, ok |-> TRUE]
    ELSE IF o.ok
         THEN [buf |-> << >>, file |-> file \o buf, opened |-> TRUE, ok |-> TRUE]
         ELSE [buf |-> << >>, file |-> file \o SubSeq(buf, 1, o.written),
               opened |-> TRUE, ok |-> FALSE]

\* _flush_log_buffer
flush_log_buffer(buf, file, o) ==
    IF buf = << >>
    THEN [buf |-> buf, file |-> file, opened |-> FALSE, ok |-> TRUE]
    ELSE IF o.ok
         THEN [buf |-> << >>, file |-> file \o buf, opened |-> TRUE, ok |-> TRUE]
         ELSE [buf |-> buf, file |-> file \o SubSeq(buf, 1, o.written),
               opened |-> TRUE, ok |-> FALSE]

\* _add_to_log_buffer
add_to_log_buffer(buf, file, text, o) ==
    LET b == Append(buf, text)
    IN  IF buffer_full(b)
        THEN flush_log_buffer(b, file, o)
        ELSE [buf |-> b, file |-> file, opened |-> FALSE, ok |-> TRUE]


(***************************************************************************)
(* KeywordSearch.  Characters of the Japanese classes are named in ASCII:  *)
(* "neko" is one ideograph, "watashi" an ideograph of the one-character    *)
(* stoplist, "kyou1" "kyou2" the two ideographs of a stop word, "ka" "ta"  *)
(* katakana, "no" a hiragana.                                              *)
(***************************************************************************)
KanjiChars == {"neko", "inu", "watashi", "kyou1", "kyou2"}
KatakanaChars == {"ka", "ta"}
AlnumChars == {"H", "e", "y", "o", "k", "a", "b", "c", "1"}
PunctChars == {"!", "?", ".", ","}

\* The ideographs of one_char_stop, line 31.
one_char_stop == {"watashi"}

\* stop_words, line 41.
stop_words == { << "kyou1", "kyou2" >> }

\* re.findall(r'[C]{n,}', s): the maximal runs of characters of C of length >= n.
RECURSIVE findall(_, _, _, _, _)
findall(s, i, cur, C, n) ==
    LET done == IF Len(cur) >= n THEN << cur >> ELSE << >>
    IN  IF i > Len(s) THEN done
        ELSE IF s[i] \in C THEN findall(s, i + 1, Append(cur, s[i]), C, n)
        ELSE done \o findall(s, i + 1, << >>, C, n)

\* re.sub(r'[!?.,...]', ' ', text)
sub_punct(s) == [i \in 1..Len(s) |-> IF s[i] \in PunctChars THEN " " ELSE s[i]]

\* str.split()
split(s) == findall(s, 1, << >>, {s[i] : i \in 1..Len(s)} \ Whitespace, 1)

\* lines 50-53
RECURSIVE unique(_, _)
unique(seq, acc) ==
    IF seq = << >> THEN acc
    ELSE unique(Tail(seq),
                IF \E j \in 1..Len(acc) : acc[j] = Head(seq)
                THEN acc ELSE Append(acc, Head(seq)))

\* A mutant of the cut: five keywords are returned.
first5(seq) == SubSeq(seq, 1, IF Len(seq) < 5 THEN Len(seq) ELSE 5)

\* unique_keywords[:4], line 61
first4(seq) == SubSeq(seq, 1, IF Len(seq) < 4 THEN Len(seq) ELSE 4)

\* str(language).lower().startswith('ja'), line 20
startswith_ja(language) == language \in {"ja", "ja-JP", "JA"}

\* lines 20-47: the list keywords before duplicates are removed
keyword_candidates(text, language) ==
    IF startswith_ja(language)
    THEN LET kanji == findall(text, 1, << >>, KanjiChars, 1)
             katakana == findall(text, 1, << >>, KatakanaChars, 2)
             english == findall(text, 1, << >>, AlnumChars, 3)
             KeepKanji(k) == ~(Len(k) = 1 /\ k[1] \in one_char_stop)
             NotStop(kw) == kw \notin stop_words
         IN  SelectSeq(SelectSeq(kanji, KeepKanji) \o katakana \o english,
                       NotStop)
    ELSE LET LongWord(word) == Len(word) >= 3
         IN  SelectSeq(split(sub_punct(text)), LongWord)

\* KeywordSearch.extract_keywords_simple
extract_keywords_simple(text, language) ==
    IF text = << >> THEN << >>
    ELSE first4(unique(keyword_candidates(text, language), << >>))

\* KeywordSearch.search: the provider's failure is caught inside and the
\* lists gathered so far are returned.
search(keywords, o) ==
    IF keywords = << >> THEN [articles |-> 0, images |-> 0]
    ELSE IF o = "results" THEN [articles |-> 1, images |-> 1]
    ELSE [articles |-> 0, images |-> 0]

SearchOutcomes == {"results", "failed"}


(***************************************************************************)
(* State.                                                                  *)
(***************************************************************************)
VARIABLES
    threads,            \* the workers whose recognition_thread was started
    platform,           \* sys.platform: "darwin" or "linux"
    mlx_lock,           \* whether a lock was passed as mlx_lock
    has_translation_queue,  \* whether translation_queue is not None
    web_ui,             \* whether a WebUIBridge was passed as web_ui
    enabled,            \* WebUIBridge.enabled
    source_lang,        \* lang_config.source
    maxsize,            \* translation_queue.maxsize; 0 is a queue without limit
    is_running,         \* the stop signal: is_running.is_set()
    now,                \* time.time(), in ticks
    to_capture,         \* chunks the capture stage will still put on processing_queue
    translation_queue,  \* the messages in translation_queue
    in_gate,            \* the workers inside "with self.mlx_lock"
    barrier_done,       \* per worker: mx.synchronize() returned in this holding period
    issued,             \* the pair ids issued so far, each with its text, in order
    posts,              \* the envelopes submitted to the bridge's executor
    kw_threads,         \* the keyword-search threads started and not finished
    shutdown,           \* WebUIBridge.executor was shut down by close()
    delivered,          \* the envelopes whose _do_post has run: requests.post was called
    bridge_log,         \* the warnings and errors logged by _do_post
    caller_error,       \* what the last bridge send raised to its caller, or "none"
    sends,              \* the event types sent directly in the runs of the bridge alone
    pc,                 \* per worker: where its loop stands
    last_text,          \* per worker: local last_text
    last_text_time,     \* per worker: local last_text_time
    result,             \* per worker: local result['text']
    text,               \* per worker: local text
    pair_id,            \* per worker: local pair_id
    log_buffer,         \* per worker: self._log_buffer
    log_file,           \* per worker: the lines of the log file
    io_errors,          \* write errors so far
    ev,                 \* per worker: what became of the last chunk it handled:
                        \* "taken" while in hand, then "emitted"
                        \* ("unstarted" when its keyword thread could
                        \* not be started), "suppressed", "empty",
                        \* "failed" or "dropped"
    emitted_at,         \* per worker and text: when it was last emitted, -1 if never
    n_emitted,          \* per worker: chunks emitted so far
    log_ev,             \* per worker: the last operation on its log buffer
    since_flush,        \* per worker: appends since the last flush that succeeded
    appends             \* direct appends made in the log-writer runs

config_vars == << threads, platform, mlx_lock, has_translation_queue, web_ui,
                  enabled, source_lang, maxsize >>
bridge_vars == << shutdown, delivered, bridge_log, caller_error, sends >>
log_vars == << log_buffer, log_file, io_errors, log_ev, since_flush >>
local_vars == << last_text, last_text_time, result, text, pair_id >>
gate_vars == << in_gate, barrier_done >>
sink_vars == << translation_queue, issued, posts, kw_threads >>
ghost_vars == << ev, emitted_at, n_emitted >>
vars == << threads, platform, mlx_lock, has_translation_queue, web_ui, enabled,
           source_lang, maxsize, is_running, now, to_capture,
           translation_queue, in_gate, barrier_done, issued, posts, kw_threads,
           shutdown, delivered, bridge_log, caller_error, sends,
           pc, last_text, last_text_time, result, text, pair_id, log_buffer,
           log_file, io_errors, ev, emitted_at, n_emitted, log_ev, since_flush,
           appends >>

NonEmptyTexts == Texts \ {NoText}
NoLogEvent == [op |-> "none", before |-> 0, opened |-> FALSE, ok |-> TRUE,
               since |-> 0]

\* The state after SpeechRecognition.__init__, before the threads start and
\* apart from the configuration and the keyword threads.
InitState ==
    /\ is_running = TRUE
    /\ now = StartTime
    /\ translation_queue = << >>
    /\ in_gate = {}
    /\ barrier_done = [w \in Workers |-> FALSE]
    /\ issued = << >>
    /\ posts = {}
    /\ shutdown = FALSE
    /\ delivered = {}
    /\ bridge_log = {}
    /\ caller_error = "none"
    /\ sends = {}
    /\ pc = [w \in Workers |-> "loop"]
    /\ last_text = [w \in Workers |-> NoText]
    /\ last_text_time = [w \in Workers |-> 0]
    /\ result = [w \in Workers |-> NoText]
    /\ text = [w \in Workers |-> NoText]
    /\ pair_id = [w \in Workers |-> 0]
    /\ log_buffer = [w \in Workers |-> << >>]
    /\ log_file = [w \in Workers |-> << >>]
    /\ io_errors = 0
    /\ ev = [w \in Workers |-> "none"]
    /\ emitted_at = [w \in Workers |-> [t \in NonEmptyTexts |-> -1]]
    /\ n_emitted = [w \in Workers |-> 0]
    /\ log_ev = [w \in Workers |-> NoLogEvent]
    /\ since_flush = [w \in Workers |-> 0]
    /\ appends = 0

\* One recognition session with Japanese as the source language, on either
\* platform, with or without the lock, the Web UI and a translation queue
\* (one without a size limit); the bridge stays open and threads can be started.
Init ==
    /\ InitState
    /\ kw_threads = {}
    /\ threads = {"w1"}
    /\ to_capture = MaxChunks
    /\ platform \in {"darwin", "linux"}
    /\ mlx_lock \in BOOLEAN
    /\ (platform = "linux" => ~mlx_lock)
    /\ has_translation_queue \in BOOLEAN
    /\ web_ui \in BOOLEAN
    /\ enabled \in BOOLEAN
    /\ (~web_ui => ~enabled)
    /\ source_lang = "ja"
    /\ maxsize = 0

gated == platform = "darwin" /\ mlx_lock

(***************************************************************************)
(* Log-buffer bookkeeping shared by the actions that append or flush.      *)
(***************************************************************************)
OK == [ok |-> TRUE, written |-> 0]

\* The outcomes a flush of buffer b can have.
FlushOutcomes(b) ==
    {OK} \cup
    IF b # << >> /\ io_errors < MaxIOErrors
    THEN {[ok |-> FALSE, written |-> k] : k \in 0..Len(b)}
    ELSE {}

\* The outcomes of the flush an append of t may trigger.
AppendOutcomes(w, t) ==
    IF buffer_full(Append(log_buffer[w], t))
    THEN FlushOutcomes(Append(log_buffer[w], t))
    ELSE {OK}

LogStep(w, op, r, appended) ==
    /\ log_buffer' = [log_buffer EXCEPT ![w] = r.buf]
    /\ log_file' = [log_file EXCEPT ![w] = r.file]
    /\ io_errors' = IF r.ok THEN io_errors ELSE io_errors + 1
    /\ log_ev' = [log_ev EXCEPT ![w] =
                    [op |-> op, before |-> Len(log_buffer[w]),
                     opened |-> r.opened, ok |-> r.ok,
                     since |-> since_flush[w] + appended]]
    /\ since_flush' = [since_flush EXCEPT ![w] =
                         IF r.opened /\ r.ok THEN 0 ELSE @ + appended]


(***************************************************************************)
(* The environment: the stop signal.                                       *)
(***************************************************************************)
Stop ==
    /\ is_running
    /\ is_running' = FALSE
    /\ UNCHANGED << config_vars, bridge_vars, now, to_capture, sink_vars,
                    gate_vars, pc, local_vars, log_vars, ghost_vars, appends >>

(***************************************************************************)
(* recognition_thread, lines 74-179.                                       *)
(***************************************************************************)
\* lines 77-80: the stop signal is set and the capture stage has put a chunk
\* on processing_queue within the 0.5 s of the timed pop.
GetChunk(w) ==
    /\ pc[w] = "loop"
    /\ is_running
    /\ to_capture > 0
    /\ to_capture' = to_capture - 1
    /\ pc' = [pc EXCEPT ![w] = IF gated THEN "acquire" ELSE "transcribe"]
    /\ ev' = [ev EXCEPT ![w] = "taken"]
    /\ UNCHANGED << config_vars, bridge_vars, is_running, now, sink_vars, gate_vars,
                    local_vars, log_vars, emitted_at, n_emitted, appends >>

\* lines 79, 172-174: no chunk arrives in time and the pop raises queue.Empty.
QueueEmpty(w) ==
    /\ pc[w] = "loop"
    /\ is_running
    /\ UNCHANGED vars

\* A mutant of the outer handler: an exception ends the loop.
on_loop_error_exit == "done"

\* lines 175-176: except Exception logs; the while loop goes on.
on_loop_error == "loop"

\* lines 80-88, 175-176: normalize_audio or save_audio_debug raises on the chunk
\* just taken; the outer handler logs and the chunk is dropped.
NormalizeRaise(w) ==
    /\ pc[w] = "loop"
    /\ is_running
    /\ to_capture > 0
    /\ to_capture' = to_capture - 1
    /\ pc' = [pc EXCEPT ![w] = on_loop_error]
    /\ ev' = [ev EXCEPT ![w] = "dropped"]
    /\ UNCHANGED << config_vars, bridge_vars, is_running, now, sink_vars,
                    gate_vars, local_vars, log_vars, emitted_at, n_emitted,
                    appends >>

\* lines 77, 179: the stop signal is clear; the loop ends and flushes.
Terminate(w, o) ==
    /\ pc[w] = "loop"
    /\ ~is_running
    /\ LogStep(w, "flush", flush_log_buffer(log_buffer[w], log_file[w], o), 0)
    /\ pc' = [pc EXCEPT ![w] = "done"]
    /\ UNCHANGED << config_vars, bridge_vars, is_running, now, to_capture,
                    sink_vars, gate_vars, local_vars, ghost_vars, appends >>

\* A mutant of the lock: it is handed to every thread that asks.
gate_free_always == TRUE

\* threading.Lock: free when no thread holds it.
gate_free == in_gate = {}

\* line 97: with self.mlx_lock
Acquire(w) ==
    /\ pc[w] = "acquire"
    /\ gate_free
    /\ in_gate' = in_gate \cup {w}
    /\ barrier_done' = [barrier_done EXCEPT ![w] = FALSE]
    /\ pc' = [pc EXCEPT ![w] = "transcribe"]
    /\ UNCHANGED << config_vars, bridge_vars, is_running, now, to_capture,
                    sink_vars, local_vars, log_vars, ghost_vars, appends >>

\* lines 98-102, 106-110, 113-116: the backend returns raw.
Transcribe(w, raw) ==
    /\ pc[w] = "transcribe"
    /\ result' = [result EXCEPT ![w] = raw]
    /\ pc' = [pc EXCEPT ![w] = IF w \in in_gate THEN "synchronize" ELSE "process"]
    /\ UNCHANGED << config_vars, bridge_vars, is_running, now, to_capture,
                    sink_vars, gate_vars, last_text, last_text_time, text,
                    pair_id, log_vars, ghost_vars, appends >>

\* A mutant of the handler: no continue, the loop goes on with the stale result.
on_backend_error_fall_through == "process"

\* line 119: continue
on_backend_error == "loop"

\* lines 117-119: the backend raises; leaving the with block releases the lock.
TranscribeRaise(w) ==
    /\ pc[w] = "transcribe"
    /\ in_gate' = in_gate \ {w}
    /\ pc' = [pc EXCEPT ![w] = on_backend_error]
    /\ ev' = [ev EXCEPT ![w] = "failed"]
    /\ UNCHANGED << config_vars, bridge_vars, is_running, now, to_capture,
                    sink_vars, barrier_done, local_vars, log_vars, emitted_at,
                    n_emitted, appends >>

\* line 104: mx.synchronize() inside the with block
Synchronize(w) ==
    /\ pc[w] = "synchronize"
    /\ barrier_done' = [barrier_done EXCEPT ![w] = TRUE]
    /\ pc' = [pc EXCEPT ![w] = "release"]
    /\ UNCHANGED << config_vars, bridge_vars, is_running, now, to_capture,
                    sink_vars, in_gate, local_vars, log_vars, ghost_vars, appends >>

\* the end of the with block of line 97
Release(w) ==
    /\ pc[w] = "release"
    /\ in_gate' = in_gate \ {w}
    /\ pc' = [pc EXCEPT ![w] = "process"]
    /\ UNCHANGED << config_vars, bridge_vars, is_running, now, to_capture,
                    sink_vars, barrier_done, local_vars, log_vars, ghost_vars,
                    appends >>

IssuedIds == {issued[i].pid : i \in 1..Len(issued)}

\* lines 121-139, 169-170: trim, read the clock (d ticks later), decide, and on
\* emission update last_text, last_text_time and draw the pair id.
Process(w, d, id) ==
    /\ pc[w] = "process"
    /\ now' = now + d
    /\ LET t == strip(result[w])
           emit == should_emit(t, last_text[w], last_text_time[w], now')
       IN  /\ text' = [text EXCEPT ![w] = t]
           /\ IF emit
              THEN /\ id \in uuid4(IssuedIds)
                   /\ last_text' = [last_text EXCEPT ![w] = t]
                   /\ last_text_time' = [last_text_time EXCEPT ![w] = now']
                   /\ pair_id' = [pair_id EXCEPT ![w] = id]
                   /\ issued' = Append(issued, [pid |-> id, text |-> t])
                   /\ emitted_at' = [emitted_at EXCEPT ![w][t] = now']
                   /\ n_emitted' = [n_emitted EXCEPT ![w] = @ + 1]
                   /\ pc' = [pc EXCEPT ![w] =
                               IF has_translation_queue THEN "put" ELSE "fanout"]
              ELSE /\ id = 0
                   /\ pc' = [pc EXCEPT ![w] = "loop"]
                   /\ UNCHANGED << last_text, last_text_time, pair_id, issued,
                                   emitted_at, n_emitted >>
           /\ ev' = [ev EXCEPT ![w] =
                       IF emit THEN "emitted"
                       ELSE IF t = NoText THEN "empty" ELSE "suppressed"]
    /\ UNCHANGED << config_vars, bridge_vars, is_running, to_capture,
                    translation_queue, posts, kw_threads, gate_vars, result,
                    log_vars, appends >>

\* line 143: the message put on the translation queue
translation_message(w) == [text |-> text[w], pair_id |-> pair_id[w]]

\* queue.Queue.full(): a queue created with maxsize > 0 holds maxsize items.
queue_full == maxsize > 0 /\ Len(translation_queue) >= maxsize

\* lines 141-143: Queue.put(item) with block=True and no timeout waits for a
\* free slot.
Put(w) ==
    /\ pc[w] = "put"
    /\ ~queue_full
    /\ translation_queue' = Append(translation_queue, translation_message(w))
    /\ pc' = [pc EXCEPT ![w] = "fanout"]
    /\ UNCHANGED << config_vars, bridge_vars, is_running, now, to_capture,
                    issued, posts, kw_threads, gate_vars, local_vars, log_vars,
                    ghost_vars, appends >>

\* "pair_id or datetime.now().isoformat()": without a pair id the envelope
\* carries the time of sending, written -1 here.
pair_id_or_now(pid) == IF pid # 0 THEN pid ELSE -1

\* WebUIBridge.send_recognized_text, lines 56-62
recognized_envelope(t, language, pid) ==
    [type |-> "recognized", text |-> t, language |-> language,
     pair_id |-> pair_id_or_now(pid)]

\* line 165: the arguments the keyword thread is started with
thread_args(w) ==
    [txt |-> text[w], pid |-> pair_id[w], lang |-> source_lang, w |-> w]

\* ThreadPoolExecutor.submit after shutdown() raises RuntimeError, which
\* _broadcast (line 168) and the send operation pass on to the caller.
send_raises == enabled /\ shutdown

\* A mutant of the bridge: a disabled bridge submits as an enabled one does.
broadcast_when_disabled(e) == IF ~shutdown THEN posts \cup {e} ELSE posts

\* WebUIBridge._broadcast, lines 149-168, behind the test of enabled each send
\* operation starts with: the envelopes submitted to the executor after this one.
broadcast(e) == IF enabled /\ ~shutdown THEN posts \cup {e} ELSE posts

\* threading.Thread.start(): the thread runs, or the platform cannot start one
\* and start() raises RuntimeError.
StartOutcomes == {"started", "cannot_start"}

\* A mutant of the spawn: the loop joins the thread it started.
after_start_join == "join"

\* line 167: start() returns at once and the thread is not joined.
after_start == "loop"

\* A mutant of the condition: the thread is started with a translation queue too.
spawns_keyword_thread_with_queue == web_ui /\ ~send_raises

\* line 153 inside line 149: the keyword thread is started only with a Web UI,
\* without a translation queue, and when the send of line 150 returned.
spawns_keyword_thread ==
    web_ui /\ ~has_translation_queue /\ ~send_raises

\* lines 146-167: append to the log buffer, send to the Web UI, start the
\* keyword thread.  An exception of the send or of start() reaches the handler
\* of line 175.
FanOut(w, o, x) ==
    /\ pc[w] = "fanout"
    /\ LogStep(w, "append",
               add_to_log_buffer(log_buffer[w], log_file[w], text[w], o), 1)
    /\ posts' = IF web_ui
                THEN broadcast(recognized_envelope(text[w], source_lang, pair_id[w]))
                ELSE posts
    /\ caller_error' = IF web_ui
                       THEN (IF send_raises THEN "RuntimeError" ELSE "none")
                       ELSE caller_error
    /\ (~spawns_keyword_thread => x = "started")
    /\ kw_threads' = IF spawns_keyword_thread /\ x = "started"
                     THEN kw_threads \cup {thread_args(w)}
                     ELSE kw_threads
    /\ pc' = [pc EXCEPT ![w] =
                IF (web_ui /\ send_raises) \/ x = "cannot_start" THEN on_loop_error
                ELSE IF spawns_keyword_thread THEN after_start
                ELSE "loop"]
    /\ ev' = [ev EXCEPT ![w] = IF x = "cannot_start" THEN "unstarted" ELSE @]
    /\ UNCHANGED << config_vars, shutdown, delivered, bridge_log, sends, is_running,
                    now, to_capture, translation_queue, issued, gate_vars,
                    local_vars, emitted_at, n_emitted, appends >>

\* SpeechRecognition.close, lines 220-222
Close(w, o) ==
    /\ LogStep(w, "flush", flush_log_buffer(log_buffer[w], log_file[w], o), 0)
    /\ UNCHANGED << config_vars, bridge_vars, is_running, now, to_capture,
                    sink_vars, gate_vars, pc, local_vars, ghost_vars, appends >>

(***************************************************************************)
(* The keyword thread, lines 154-161, and WebUIBridge.send_keywords.       *)
(***************************************************************************)
\* A mutant of the thread: it reads the loop's current pair_id, not its argument.
keywords_envelope_late_binding(th, keywords, found) ==
    [type |-> "keywords", keywords |-> keywords, articles |-> found.articles,
     images |-> found.images, pair_id |-> pair_id_or_now(pair_id[th.w])]

\* WebUIBridge.send_keywords, lines 102-109
keywords_envelope(th, keywords, found) ==
    [type |-> "keywords", keywords |-> keywords, articles |-> found.articles,
     images |-> found.images, pair_id |-> pair_id_or_now(th.pid)]

\* trigger_keyword_search, lines 154-161.  An exception of send_keywords (the
\* executor was shut down) is caught by the handler of line 160.
KeywordThread(th, o) ==
    /\ th \in kw_threads
    /\ kw_threads' = kw_threads \ {th}
    /\ LET keywords == extract_keywords_simple(th.txt, th.lang)
       IN  /\ posts' = IF keywords # << >>
                       THEN broadcast(keywords_envelope(th, keywords,
                                                        search(keywords, o)))
                       ELSE posts
           /\ caller_error' = IF keywords # << >>
                              THEN (IF send_raises THEN "RuntimeError" ELSE "none")
                              ELSE caller_error
    /\ UNCHANGED << config_vars, shutdown, delivered, bridge_log, sends, is_running,
                    now, to_capture, translation_queue, issued, gate_vars, pc,
                    local_vars, log_vars, ghost_vars, appends >>

\* WebUIBridge.close, lines 170-172, called by the program that owns the bridge.
BridgeClose ==
    /\ web_ui
    /\ ~shutdown
    /\ shutdown' = TRUE
    /\ UNCHANGED << config_vars, delivered, bridge_log, caller_error, sends,
                    is_running, now, to_capture, sink_vars, gate_vars, pc,
                    local_vars, log_vars, ghost_vars, appends >>

(***************************************************************************)
(* The recognition session.                                                *)
(***************************************************************************)
Next ==
    \/ Stop
    \/ \E w \in threads : GetChunk(w)
    \/ \E w \in threads : NormalizeRaise(w)
    \/ \E w \in threads : QueueEmpty(w)
    \/ \E w \in threads : \E o \in FlushOutcomes(log_buffer[w]) : Terminate(w, o)
    \/ \E w \in threads : Acquire(w)
    \/ \E w \in threads : \E raw \in RawTexts : Transcribe(w, raw)
    \/ \E w \in threads : TranscribeRaise(w)
    \/ \E w \in threads : Synchronize(w)
    \/ \E w \in threads : Release(w)
    \/ \E w \in threads : \E d \in 0..MaxGap : \E id \in PairIds \cup {0} :
          Process(w, d, id)
    \/ \E w \in threads : Put(w)
    \/ \E w \in threads : \E o \in AppendOutcomes(w, text[w]) :
          FanOut(w, o, "started")
    \/ \E th \in kw_threads : \E o \in SearchOutcomes : KeywordThread(th, o)

Spec == Init /\ [][Next]_vars

(***************************************************************************)
(* One recognition session on linux in which the bridge may be closed at   *)
(* any time and a thread may fail to start.                                *)
(***************************************************************************)
InitFaults ==
    /\ InitState
    /\ kw_threads = {}
    /\ threads = {"w1"}
    /\ to_capture = MaxChunks
    /\ platform = "linux"
    /\ mlx_lock = FALSE
    /\ has_translation_queue \in BOOLEAN
    /\ web_ui \in BOOLEAN
    /\ enabled \in BOOLEAN
    /\ (~web_ui => ~enabled)
    /\ source_lang = "ja"
    /\ maxsize = 0

NextFaults ==
    \/ Stop
    \/ BridgeClose
    \/ \E w \in threads : GetChunk(w)
    \/ \E w \in threads : NormalizeRaise(w)
    \/ \E w \in threads : QueueEmpty(w)
    \/ \E w \in threads : \E o \in FlushOutcomes(log_buffer[w]) : Terminate(w, o)
    \/ \E w \in threads : \E raw \in RawTexts : Transcribe(w, raw)
    \/ \E w \in threads : TranscribeRaise(w)
    \/ \E w \in threads : \E d \in 0..MaxGap : \E id \in PairIds \cup {0} :
          Process(w, d, id)
    \/ \E w \in threads : Put(w)
    \/ \E w \in threads : \E o \in AppendOutcomes(w, text[w]) :
          \E x \in StartOutcomes : FanOut(w, o, x)
    \/ \E th \in kw_threads : \E o \in SearchOutcomes : KeywordThread(th, o)

SpecFaults == InitFaults /\ [][NextFaults]_vars

(***************************************************************************)
(* One recognition session on linux publishing to a translation queue      *)
(* that nothing reads, created with or without a size limit, and writing   *)
(* its log without write errors.  The loop's thread is scheduled and a     *)
(* backend call returns or raises: every step of the loop that can be      *)
(* taken is taken in the end.                                              *)
(***************************************************************************)
InitSink ==
    /\ InitState
    /\ kw_threads = {}
    /\ threads = {"w1"}
    /\ to_capture = MaxChunks
    /\ platform = "linux"
    /\ mlx_lock = FALSE
    /\ has_translation_queue = TRUE
    /\ web_ui = FALSE
    /\ enabled = FALSE
    /\ source_lang = "ja"
    /\ maxsize \in 0..MaxQueueSize

\* A step of the loop of worker w at the statement it stands at.
LoopStep(w) ==
    \/ GetChunk(w)
    \/ Terminate(w, OK)
    \/ \E raw \in RawTexts : Transcribe(w, raw)
    \/ TranscribeRaise(w)
    \/ \E d \in 0..MaxGap : \E id \in PairIds \cup {0} : Process(w, d, id)
    \/ Put(w)
    \/ FanOut(w, OK, "started")

NextSink ==
    \/ Stop
    \/ \E w \in threads : GetChunk(w)
    \/ \E w \in threads : QueueEmpty(w)
    \/ \E w \in threads : Terminate(w, OK)
    \/ \E w \in threads : \E raw \in RawTexts : Transcribe(w, raw)
    \/ \E w \in threads : TranscribeRaise(w)
    \/ \E w \in threads : \E d \in 0..MaxGap : \E id \in PairIds \cup {0} :
          Process(w, d, id)
    \/ \E w \in threads : Put(w)
    \/ \E w \in threads : FanOut(w, OK, "started")

SpecSink == InitSink /\ [][NextSink]_vars /\ WF_vars(LoopStep("w1"))

(***************************************************************************)
(* Two recognition loops on darwin sharing one mlx_lock, without sinks.    *)
(***************************************************************************)
InitGate ==
    /\ InitState
    /\ kw_threads = {}
    /\ threads = Workers
    /\ to_capture = GateChunks
    /\ platform = "darwin"
    /\ mlx_lock = TRUE
    /\ has_translation_queue = FALSE
    /\ web_ui = FALSE
    /\ enabled = FALSE
    /\ source_lang = "ja"
    /\ maxsize = 0

NextGate ==
    \/ Stop
    \/ \E w \in threads : GetChunk(w)
    \/ \E w \in threads : QueueEmpty(w)
    \/ \E w \in threads : \E o \in FlushOutcomes(log_buffer[w]) : Terminate(w, o)
    \/ \E w \in threads : Acquire(w)
    \/ \E w \in threads : \E raw \in RawTexts : Transcribe(w, raw)
    \/ \E w \in threads : TranscribeRaise(w)
    \/ \E w \in threads : Synchronize(w)
    \/ \E w \in threads : Release(w)
    \/ \E w \in threads : \E d \in 0..MaxGap : \E id \in PairIds \cup {0} :
          Process(w, d, id)
    \/ \E w \in threads : \E o \in AppendOutcomes(w, text[w]) :
          \E x \in StartOutcomes : FanOut(w, o, x)

SpecGate == InitGate /\ [][NextGate]_vars

(***************************************************************************)
(* The buffered log writer alone: _add_to_log_buffer and close called on   *)
(* one SpeechRecognition whose thread was not started.                     *)
(***************************************************************************)
InitLog ==
    /\ InitState
    /\ kw_threads = {}
    /\ threads = {}
    /\ to_capture = 0
    /\ platform = "linux"
    /\ mlx_lock = FALSE
    /\ has_translation_queue = FALSE
    /\ web_ui = FALSE
    /\ enabled = FALSE
    /\ source_lang = "ja"
    /\ maxsize = 0

\* self._add_to_log_buffer(t)
AddToLogBuffer(w, t, o) ==
    /\ appends < MaxAppends
    /\ appends' = appends + 1
    /\ LogStep(w, "append",
               add_to_log_buffer(log_buffer[w], log_file[w], t, o), 1)
    /\ UNCHANGED << config_vars, bridge_vars, is_running, now, to_capture, sink_vars,
                    gate_vars, pc, local_vars, ghost_vars >>

\* The text of the n-th append of these runs: two texts in turn, so that a
\* line lost, repeated or out of place shows in the file.
LogText(n) == IF n % 2 = 0 THEN << "H", "e", "y" >> ELSE << "o", "k" >>

NextLog ==
    \/ \E o \in AppendOutcomes("w1", LogText(appends)) :
          AddToLogBuffer("w1", LogText(appends), o)
    \/ \E o \in FlushOutcomes(log_buffer["w1"]) : Close("w1", o)

SpecLog == InitLog /\ [][NextLog]_vars


(***************************************************************************)
(* The WebUIBridge alone: its five send operations called by the components *)
(* that own it, close(), and the executor running the submitted posts.      *)
(* Envelopes are told apart by their content; their timestamps are left     *)
(* out.                                                                     *)
(***************************************************************************)
InitBridge ==
    /\ InitState
    /\ kw_threads = {}
    /\ threads = {}
    /\ to_capture = 0
    /\ platform = "linux"
    /\ mlx_lock = FALSE
    /\ has_translation_queue = FALSE
    /\ web_ui = TRUE
    /\ enabled \in BOOLEAN
    /\ source_lang = "ja"
    /\ maxsize = 0

\* send_translated_text, lines 77-83
translated_envelope(t, source_text, pid) ==
    [type |-> "translated", text |-> t, source_text |-> source_text,
     pair_id |-> pair_id_or_now(pid)]

\* send_status, lines 124-129
status_envelope(status, message) ==
    [type |-> "status", status |-> status, message |-> message]

\* send_error, lines 142-146
error_envelope(error_message) == [type |-> "error", message |-> error_message]

\* The part the five send operations share: return when disabled, build the
\* envelope, _broadcast it.
Send(e) ==
    /\ posts' = broadcast(e)
    /\ caller_error' = IF send_raises THEN "RuntimeError" ELSE "none"
    /\ sends' = sends \cup {e.type}
    /\ UNCHANGED << config_vars, shutdown, delivered, bridge_log, is_running,
                    now, to_capture, translation_queue, issued, kw_threads,
                    gate_vars, pc, local_vars, log_vars, ghost_vars, appends >>

SendRecognizedText(t, language, pid) == Send(recognized_envelope(t, language, pid))

SendTranslatedText(t, source_text, pid) == Send(translated_envelope(t, source_text, pid))

SendKeywords(keywords, found, pid) ==
    Send(keywords_envelope([txt |-> NoText, pid |-> pid, lang |-> source_lang,
                            w |-> "w1"], keywords, found))

SendStatus(status, message) == Send(status_envelope(status, message))

SendError(error_message) == Send(error_envelope(error_message))

\* What requests.post can come to: HTTP 200, another status, an exception.
PostOutcomes == {"200", "500", "exception"}

\* _do_post, lines 156-166, run by a thread of the executor.  Posts submitted
\* before shutdown(wait=False) are still run after it.
DoPost(e, r) ==
    /\ e \in posts \ delivered
    /\ delivered' = delivered \cup {e}
    /\ bridge_log' = IF r = "200" THEN bridge_log
                     ELSE bridge_log \cup
                          {[envelope |-> e,
                            level |-> IF r = "500" THEN "warning" ELSE "error"]}
    /\ UNCHANGED << config_vars, shutdown, caller_error, sends, is_running, now,
                    to_capture, sink_vars, gate_vars, pc, local_vars, log_vars,
                    ghost_vars, appends >>

NextBridge ==
    \/ \E pid \in {0, 1} : SendRecognizedText(<< "o", "k" >>, "ja", pid)
    \/ SendTranslatedText(<< "H", "e", "y" >>, << "o", "k" >>, 1)
    \/ \E o \in SearchOutcomes :
          SendKeywords(<< << "neko" >> >>, search(<< << "neko" >> >>, o), 1)
    \/ SendStatus("running", "started")
    \/ SendError("failed")
    \/ BridgeClose
    \/ \E e \in posts : \E r \in PostOutcomes : DoPost(e, r)

SpecBridge == InitBridge /\ [][NextBridge]_vars

EventTypes == {"recognized", "translated", "keywords", "status", "error"}

(***************************************************************************)
(* C11.  A disabled bridge submits no post and makes no HTTP call,         *)
(* whatever send operations are called on it, before or after close().     *)
(***************************************************************************)
C11_DisabledBridgeIsSilent ==
    ~enabled => posts = {} /\ delivered = {} /\ bridge_log = {}

\* All five send operations were called on a disabled bridge.
C11_Witness ==
    /\ ~enabled
    /\ sends = EventTypes
    /\ posts = {}

(***************************************************************************)
(* C12.  No send operation raises to its caller, in any state of the       *)
(* bridge: failures of the post are logged by _do_post, and a send after   *)
(* close() raises nothing either.                                          *)
(***************************************************************************)
C12_SendNeverRaises == caller_error = "none"

(***************************************************************************)
(* The keyword thread alone, started for a text of up to MaxWords words    *)
(* in Japanese or in English, written with or without spaces.              *)
(***************************************************************************)
KwWords ==
    { << "neko" >>, << "inu" >>, << "watashi" >>, << "kyou1", "kyou2" >>,
      << "ka", "ta", "a", "b", "c" >>, << "H", "e", "y", "!" >> }

RECURSIVE join(_, _)
join(ws, sep) ==
    IF ws = << >> THEN << >>
    ELSE IF Len(ws) = 1 THEN ws[1]
    ELSE ws[1] \o sep \o join(Tail(ws), sep)

KwTexts ==
    { join(ws, sep) : ws \in UNION { [1..k -> KwWords] : k \in 0..MaxWords },
                      sep \in { << " " >>, << >> } }

InitKeywords ==
    /\ InitState
    /\ threads = {}
    /\ to_capture = 0
    /\ platform = "linux"
    /\ mlx_lock = FALSE
    /\ has_translation_queue = FALSE
    /\ web_ui = TRUE
    /\ enabled = TRUE
    /\ source_lang \in {"ja", "en"}
    /\ maxsize = 0
    /\ \E t \in KwTexts :
          kw_threads = {[txt |-> t, pid |-> 1, lang |-> source_lang, w |-> "w1"]}

NextKeywords ==
    \E th \in kw_threads : \E o \in SearchOutcomes : KeywordThread(th, o)

SpecKeywords == InitKeywords /\ [][NextKeywords]_vars

(***************************************************************************)
(* Vocabulary of the claims.                                               *)
(***************************************************************************)
\* Worker w handles lines 121-170 for the chunk in hand in this step.
ProcessStep(w) == pc[w] = "process" /\ pc'[w] # "process"

\* ... and goes on to the fan-out of lines 141-167: the chunk is emitted.
EmitStep(w) == ProcessStep(w) /\ pc'[w] \in {"put", "fanout"}

\* ... or goes back to the head of the loop: nothing is emitted.
DropStep(w) == ProcessStep(w) /\ pc'[w] = "loop"

WhitespaceOnly(raw) == \A i \in 1..Len(raw) : raw[i] \in Whitespace

\* What an emission reaches: the log, the two sinks, the ids, the threads.
NoOutput(w) ==
    /\ log_buffer'[w] = log_buffer[w]
    /\ log_file'[w] = log_file[w]
    /\ UNCHANGED << translation_queue, posts, issued, kw_threads >>

SameEmissionState(w) ==
    /\ last_text'[w] = last_text[w]
    /\ last_text_time'[w] = last_text_time[w]

(***************************************************************************)
(* C1.  For a chunk whose trimmed text is not empty, the text is emitted   *)
(* if and only if it differs from last_text or more than 1.5 s have        *)
(* passed since last_text_time (at exactly 1.5 s an identical text is      *)
(* suppressed).  On emission, and only then, last_text becomes the text    *)
(* and last_text_time the time read; a suppressed chunk changes neither.   *)
(***************************************************************************)
C1_EmissionPolicy ==
    [][\A w \in Workers :
        /\ (ProcessStep(w) /\ text'[w] # NoText) =>
              /\ EmitStep(w) <=>
                    \/ text'[w] # last_text[w]
                    \/ now' - last_text_time[w] > DedupTicks
              /\ EmitStep(w) =>
                    /\ last_text'[w] = text'[w]
                    /\ last_text_time'[w] = now'
              /\ ~EmitStep(w) => DropStep(w) /\ SameEmissionState(w)
        /\ ~EmitStep(w) => SameEmissionState(w)
      ]_vars

\* An identical text exactly 1.5 s after its emission was suppressed.
C1_Witness ==
    \E w \in Workers :
        /\ ev[w] = "suppressed"
        /\ text[w] = last_text[w]
        /\ now - last_text_time[w] = DedupTicks

(***************************************************************************)
(* C2, as the claim states it.  Whenever the backend returns a text less   *)
(* than 1.5 s after the loop emitted that text, the occurrence is          *)
(* suppressed; whenever it returns it more than 1.5 s after, it is         *)
(* emitted again.                                                          *)
(***************************************************************************)
C2_SuppressedWithinWindow ==
    [][\A w \in Workers : \A t \in NonEmptyTexts :
        (ProcessStep(w) /\ text'[w] = t /\ emitted_at[w][t] >= 0) =>
            /\ now' - emitted_at[w][t] < DedupTicks => DropStep(w) /\ NoOutput(w)
            /\ now' - emitted_at[w][t] > DedupTicks => EmitStep(w)
      ]_vars

(***************************************************************************)
(* C2, amended.  A text returned less than 1.5 s after the loop emitted    *)
(* it is suppressed (no log line, no translation message, no envelope, no  *)
(* new id) provided no other text was emitted in between, that is, the     *)
(* text is still last_text; a text returned more than 1.5 s after it was   *)
(* last emitted is emitted again, with an id not issued before.            *)
(***************************************************************************)
C2_SuppressedWhileLast ==
    [][\A w \in Workers : \A t \in NonEmptyTexts :
        (ProcessStep(w) /\ text'[w] = t /\ emitted_at[w][t] >= 0) =>
            /\ (now' - emitted_at[w][t] < DedupTicks /\ last_text[w] = t) =>
                  /\ DropStep(w)
                  /\ NoOutput(w)
                  /\ pair_id'[w] = pair_id[w]
            /\ now' - emitted_at[w][t] > DedupTicks =>
                  /\ EmitStep(w)
                  /\ pair_id'[w] \notin IssuedIds
                  /\ issued' = Append(issued, [pid |-> pair_id'[w], text |-> t])
      ]_vars

\* A text was emitted a second time, under a second id.
C2_Witness ==
    \E i, j \in 1..Len(issued) :
        /\ i < j
        /\ issued[i].text = issued[j].text
        /\ issued[i].pid # issued[j].pid
        /\ j = Len(issued)
        /\ ev["w1"] = "emitted"

(***************************************************************************)
(* C3.  A chunk whose backend output is empty or whitespace only causes    *)
(* no emission: the log buffer and file, the translation queue, the        *)
(* envelopes sent, the ids issued and the keyword threads are unchanged,   *)
(* and so are last_text and last_text_time.                                *)
(***************************************************************************)
C3_EmptyOutputIgnored ==
    [][\A w \in Workers :
        (ProcessStep(w) /\ WhitespaceOnly(result[w])) =>
            /\ DropStep(w)
            /\ NoOutput(w)
            /\ SameEmissionState(w)
      ]_vars

\* A whitespace-only output was dropped by a loop that had emitted before.
C3_Witness ==
    \E w \in Workers :
        /\ ev[w] = "empty"
        /\ result[w] = << " " >>
        /\ n_emitted[w] > 0
        /\ log_buffer[w] # << >>

(***************************************************************************)
(* C4.  Every emission draws exactly one pair id, different from every id  *)
(* issued before; no other step (a suppressed, empty or failed chunk       *)
(* among them) issues an id.                                               *)
(***************************************************************************)
C4_OneFreshIdPerEmission ==
    [][/\ \A w \in Workers :
            EmitStep(w) =>
                /\ Len(issued') = Len(issued) + 1
                /\ SubSeq(issued', 1, Len(issued)) = issued
                /\ issued'[Len(issued')].pid \notin IssuedIds
                /\ issued'[Len(issued')].pid = pair_id'[w]
       /\ (\A w \in Workers : ~EmitStep(w)) => issued' = issued
      ]_vars

\* Two ids were issued and the chunk handled last got none.
C4_Witness ==
    /\ Len(issued) >= 2
    /\ \E w \in Workers : ev[w] \in {"suppressed", "empty", "failed"}

(***************************************************************************)
(* C5.  The translation message, the recognized envelope and the keywords  *)
(* envelope of an emission carry the pair id issued for it and the text    *)
(* (for keywords: the keywords of the text) it was issued for, whatever    *)
(* was emitted before the keyword thread finished.                         *)
(***************************************************************************)
IssuedFor(pid, t) == \E i \in 1..Len(issued) : issued[i] = [pid |-> pid, text |-> t]

C5_SameIdAndText ==
    /\ \A i \in 1..Len(translation_queue) :
          IssuedFor(translation_queue[i].pair_id, translation_queue[i].text)
    /\ \A e \in posts :
          /\ e.type = "recognized" => IssuedFor(e.pair_id, e.text)
          /\ e.type = "keywords" =>
                \E t \in NonEmptyTexts :
                    /\ IssuedFor(e.pair_id, t)
                    /\ e.keywords = extract_keywords_simple(t, source_lang)
    /\ \A th \in kw_threads : IssuedFor(th.pid, th.txt)

\* A keywords envelope was sent after the loop had moved on to a later emission.
C5_Witness ==
    \E e \in posts : \E w \in Workers :
        /\ e.type = "keywords"
        /\ e.pair_id # pair_id[w]
        /\ n_emitted[w] >= 2
        /\ text[w] # NoText
        /\ extract_keywords_simple(text[w], source_lang) # e.keywords

(***************************************************************************)
(* C6.  When the backend raises, the chunk is dropped: nothing is          *)
(* emitted, logged or sent, last_text and last_text_time are unchanged,    *)
(* and the loop is back at its head, ready for the next chunk.             *)
(***************************************************************************)
C6_BackendErrorDropsChunk ==
    [][\A w \in Workers :
        (ev[w] = "taken" /\ ev'[w] = "failed") =>
            /\ pc'[w] = "loop"
            /\ NoOutput(w)
            /\ SameEmissionState(w)
      ]_vars

\* The backend raised in a loop that had emitted before and has chunks to come.
C6_Witness ==
    \E w \in Workers :
        /\ ev[w] = "failed"
        /\ n_emitted[w] > 0
        /\ to_capture > 0
        /\ is_running

(***************************************************************************)
(* C7.  At most one thread is inside the region guarded by mlx_lock.       *)
(***************************************************************************)
C7_MutualExclusion == Cardinality(in_gate) <= 1

\* One loop is inside the region while the other waits for the lock.
C7_Witness ==
    \E w, v \in Workers :
        /\ w # v
        /\ w \in in_gate
        /\ pc[v] = "acquire"

(***************************************************************************)
(* C8.  Every release of mlx_lock comes after mx.synchronize() returned    *)
(* in the same holding period, on every path out of the guarded region.    *)
(***************************************************************************)
C8_BarrierBeforeRelease ==
    [][\A w \in Workers :
        (w \in in_gate /\ w \notin in_gate') => barrier_done[w]
      ]_vars

AppendStep(w) ==
    /\ log_ev'[w].op = "append"
    /\ \/ appends' = appends + 1 /\ w = "w1"
       \/ pc[w] = "fanout" /\ pc'[w] = "loop"

\* This worker's log buffer was flushed by close() or at the end of the loop,
\* and the flush opened the file.
FlushStep(w) ==
    /\ log_ev'[w].op = "flush"
    /\ log_ev'[w].opened
    /\ << log_buffer[w], log_file[w], io_errors >>
          # << log_buffer'[w], log_file'[w], io_errors' >>

EmittedInFile(w) ==
    \A i \in 1..Len(issued) :
        \E j \in 1..Len(log_file[w]) : log_file[w][j] = issued[i].text

C13_StopsAndFlushes ==
    (~is_running) ~>
        (\A w \in threads :
            pc[w] = "done" /\ log_buffer[w] = << >> /\ EmittedInFile(w))

(***************************************************************************)
(* C15.  The put on the translation queue never blocks: whenever the loop  *)
(* stands at the put, also with a full queue nothing reads, it can go on.  *)
(***************************************************************************)
C15_PutNeverBlocks ==
    \A w \in threads : pc[w] = "put" => ENABLED Put(w)

(***************************************************************************)
(* C14.  The keywords extracted from a text are at most 4, without         *)
(* duplicates, and they are the first distinct candidates in the order of  *)
(* their first occurrence among the candidates; for a Japanese locale      *)
(* none is a stop word or a single ideograph of the one-character          *)
(* stoplist.  The keywords are read from the envelope the thread sends     *)
(* (it sends none when there are no keywords).                             *)
(***************************************************************************)
FirstIndex(c, k) ==
    CHOOSE n \in 1..Len(c) : c[n] = k /\ \A m \in 1..(n - 1) : c[m] # k

Occurs(c, k) == \E n \in 1..Len(c) : c[n] = k

C14_KeywordsOf(th, r) ==
    LET c == keyword_candidates(th.txt, th.lang)
    IN  /\ Len(r) <= 4
        /\ \A i, j \in 1..Len(r) : i # j => r[i] # r[j]
        /\ \A i \in 1..Len(r) : Occurs(c, r[i])
        /\ \A i, j \in 1..Len(r) :
              i < j => FirstIndex(c, r[i]) < FirstIndex(c, r[j])
        /\ \A n \in 1..Len(c) :
              (Len(r) < 4 \/ n < FirstIndex(c, r[Len(r)])) => Occurs(r, c[n])
        /\ startswith_ja(th.lang) =>
              \A i \in 1..Len(r) :
                  /\ r[i] \notin stop_words
                  /\ ~(Len(r[i]) = 1 /\ r[i][1] \in one_char_stop)

C14_ExtractedKeywords ==
    [][\A th \in kw_threads :
        th \notin kw_threads' =>
            LET sent == {e \in posts' \ posts : e.type = "keywords"}
            IN  /\ Cardinality(sent) <= 1
                /\ \A e \in sent : e.keywords # << >> /\ C14_KeywordsOf(th, e.keywords)
                /\ sent = {} => C14_KeywordsOf(th, << >>)
      ]_vars

\* Four keywords were sent for a Japanese text, ideographs first, then
\* katakana, then the alphanumeric words, and a fifth was cut: the text held
\* "abc" (it comes with the katakana word) after "Hey".
C14_Witness ==
    \E e \in posts :
        /\ e.type = "keywords"
        /\ source_lang = "ja"
        /\ e.keywords = << << "inu" >>, << "neko" >>, << "ka", "ta" >>,
                           << "H", "e", "y" >> >>

(***************************************************************************)
(* C16.  Every text appended is written to the log file exactly once, in   *)
(* the order of the appends: the file is at all times the first lines of   *)
(* what was appended, and all of it once a flush has left the buffer       *)
(* empty.                                                                  *)
(***************************************************************************)
Appended == [i \in 1..appends |-> LogText(i - 1)]

C16_WrittenOnceInOrder ==
    /\ Len(log_file["w1"]) <= appends
    /\ log_file["w1"] = SubSeq(Appended, 1, Len(log_file["w1"]))
    /\ log_buffer["w1"] = << >> => log_file["w1"] = Appended

(***************************************************************************)
(* C17.  Between two operations on it the log buffer holds fewer than 10   *)
(* lines, whether or not flushes failed.                                   *)
(***************************************************************************)
C17_BufferBelowThreshold ==
    \A w \in Workers : Len(log_buffer[w]) < log_buffer_size

\* Worker w runs lines 146-167 for the text it emitted in this step.
FanOutStep(w) == pc[w] = "fanout" /\ pc'[w] # "fanout"

\* A keyword thread finishes in this step.
KeywordStep == \E th \in kw_threads : th \notin kw_threads'

(***************************************************************************)
(* C18.  The loop ends only at its head and with the stop signal given:    *)
(* no exception raised while a chunk is handled (by normalize_audio, the   *)
(* backend, a send on a closed bridge, Thread.start) ends it.              *)
(***************************************************************************)
C18_ExitsOnlyOnStop ==
    [][\A w \in Workers :
        (pc[w] # "done" /\ pc'[w] = "done") => (pc[w] = "loop" /\ ~is_running)
      ]_vars

\* The send of an emission raised on the closed bridge (its envelope was not
\* submitted) and the loop, still running, has taken the next chunk.
C18_Witness ==
    \E w \in Workers :
        /\ web_ui /\ enabled /\ shutdown
        /\ is_running
        /\ n_emitted[w] >= 1
        /\ ev[w] = "taken"
        /\ \A e \in posts : ~(e.type = "recognized" /\ e.pair_id = pair_id[w])

C20_ThreadLeavesLoopAlone ==
    [][/\ \A w \in Workers :
            (FanOutStep(w) /\ kw_threads' # kw_threads) =>
                /\ pc'[w] = "loop"
                /\ kw_threads' # {}
       /\ KeywordStep =>
            UNCHANGED << pc, last_text, last_text_time, result, text, pair_id,
                         log_buffer, log_file, io_errors, is_running, to_capture,
                         translation_queue, issued, in_gate >>
      ]_vars

\* The loop has terminated while a thread it started is still running, and
\* another thread's search had failed.
C20_Witness ==
    /\ pc["w1"] = "done"
    /\ kw_threads # {}
    /\ \E e \in posts : e.type = "keywords" /\ e.articles = 0

=============================================================================
